---- MODULE Spec2Model ----
(***************************************************************************)
(* Model of pyrobosim's ConstantVelocityExecutor                           *)
(* (pyrobosim/navigation/execution.py): the controller thread running      *)
(* execute(), the path-validator thread (validate_remaining_path) and the  *)
(* hallway-tracker thread (detect_closed_hallway), interleaved at the      *)
(* granularity of their reads and writes of the shared executor fields.    *)
(*                                                                         *)
(* Units: lengths in 0.1 m, times in 0.1 s.  Poses lie on the x axis with  *)
(* yaw 0, so a pose is its x coordinate.                                   *)
(***************************************************************************)
EXTENDS Integers, Sequences, FiniteSets, TLC

(* ------------------------------ bounds -------------------------------- *)
MaxCalls == 2
MaxHallwayChanges == 1

(* ------------------------- program constants -------------------------- *)
dt == 1
max_range_m == 2

None == "None"
NoTrajectory == [t_pts |-> <<>>, poses |-> <<>>]    \* a trajectory function returned None
NoObject == <<>>                                    \* robot.manipulated_object is None
Calls == 1..MaxCalls

SUCCESS == "SUCCESS"
CANCELED == "CANCELED"
EXECUTION_FAILURE == "EXECUTION_FAILURE"
PRECONDITION_FAILURE == "PRECONDITION_FAILURE"

(* ------------------------------ inputs -------------------------------- *)
ShortPath == <<0>>
BendPath == <<0, 1, 2>>
LinePath == <<0, 10>>
Paths == {ShortPath, BendPath}
BatteryUsages == {0, 1, 2}
InitialBatteryLevels == {3}
Planners == {"AStarPlanner", "PRMPlanner", "RRTPlanner"}
Ranges == {1, max_range_m}

(* The world's hallways in iteration order, and the cells of their         *)
(* collision polygons.                                                     *)
hallways == <<"h1", "h2">>
HallwayNames == {"h1", "h2"}
internal_collision_polygon == [h \in HallwayNames |-> IF h = "h1" THEN {2} ELSE {2, 3}]

(* Lidar beam directions: cos(angle) of the one beam, at angle 0.          *)
angles == <<1>>

VARIABLES
    (* executor configuration and the robot's attributes *)
    robot,                      \* TRUE iff a robot is attached
    world,                      \* TRUE iff robot.world is not None
    fog_hallways,
    validate_during_execution,
    lidar_sensor,               \* None: no lidar_sensor_name; "Missing": the robot has no
                                \* sensor of that name; else the type of the named sensor
    path_planner,
    linear_velocity,
    (* execution state *)
    current_traj_time,
    following_path,
    abort_execution,
    cancel_execution,
    hallway_states_updated,
    traj,                       \* self.traj
    validation_timer,           \* call whose validator thread the handle names, 0 = None
    lidar_sensor_timer,
    (* the controller thread inside execute() *)
    pc,
    path,                       \* the path handed to the last execute() call
    traj_interp,
    i,
    prev_pose,
    status,
    battery_usage,
    calls,
    ret,                        \* the result execute() returned last
    (* robot *)
    pose,
    battery_level,
    recorded_closed_hallways,
    last_nav_result,
    manipulated_object,         \* NoObject, or <<pose>> of the attached object
    planner_resets,             \* robot.reset_path_planner() invocations in this call
    (* world ground truth *)
    is_open,
    hallway_changes,
    (* validator threads, one per call *)
    vpc,
    v_cur_pose,
    v_idx,
    (* tracker threads, one per call *)
    tpc,
    analyse_pose,               \* the points of the tracker iteration last measured
    (* observation of the run *)
    pose_log,                   \* sample indices pushed by set_pose in this call
    collision_reported,         \* a validator set abort_execution during this call
    abort_at_exit,              \* abort_execution when the main loop exited
    cancel_requested,           \* cancel_execution was set while in the main loop
    knowledge_changed,          \* the tracker changed recorded_closed_hallways in this call
    observed,                   \* what ended the main loop
    signal_at                   \* samples pushed when abort or cancel was first set in
                                \* the main loop, -1 before

config == <<robot, world, fog_hallways, validate_during_execution, lidar_sensor,
            path_planner, linear_velocity>>
flags == <<current_traj_time, following_path, abort_execution, cancel_execution,
           hallway_states_updated>>
handles == <<validation_timer, lidar_sensor_timer>>
controller == <<pc, path, traj_interp, i, prev_pose, status, battery_usage, calls, ret>>
robot_state == <<pose, battery_level, last_nav_result, manipulated_object, planner_resets>>
world_state == <<is_open, hallway_changes>>
validators == <<vpc, v_cur_pose, v_idx>>
trackers == <<tpc, analyse_pose>>
history == <<pose_log, collision_reported, abort_at_exit, cancel_requested,
             knowledge_changed, observed, signal_at>>
vars == <<config, flags, traj, handles, controller, robot_state, recorded_closed_hallways,
          world_state, validators, trackers, history>>

(* --------------------------- pure functions --------------------------- *)
Abs(x) == IF x < 0 THEN -x ELSE x

get_linear_distance(a, b) == Abs(a - b)

RECURSIVE CumulativeTimes(_, _, _)
CumulativeTimes(poses, v, k) ==
    IF k = 1 THEN <<0>>
    ELSE LET before == CumulativeTimes(poses, v, k - 1)
         IN  Append(before, before[k - 1] + (get_linear_distance(poses[k - 1], poses[k]) \div v))

(* Timestamped trajectory of a path at constant speed; None on failure.    *)
get_constant_speed_trajectory(p, v) ==
    IF Len(p) < 2 \/ v <= 0 THEN NoTrajectory
    ELSE [t_pts |-> CumulativeTimes(p, v, Len(p)), poses |-> p]

num_points(tr) == Len(tr.t_pts)

(* The segment of tr that holds time t: the last k with t_pts[k] <= t.     *)
SegmentOf(tr, t) ==
    LET ks == {k \in 1..(num_points(tr) - 1) : tr.t_pts[k] <= t}
    IN  CHOOSE k \in ks : \A m \in ks : m <= k

PoseAt(tr, t) ==
    LET k == SegmentOf(tr, t)
        t0 == tr.t_pts[k]
        t1 == tr.t_pts[k + 1]
        p0 == tr.poses[k]
        p1 == tr.poses[k + 1]
    IN  IF t1 = t0 THEN p1
        ELSE IF p1 >= p0 THEN p0 + (((p1 - p0) * (t - t0)) \div (t1 - t0))
        ELSE p0 - (((p0 - p1) * (t - t0)) \div (t1 - t0))

(* Sample times 0, step, 2 step, ... below t_final, then t_final itself.   *)
InterpTimes(t_final, step) ==
    LET n == (t_final + step - 1) \div step
    IN  [k \in 1..(n + 1) |-> IF k <= n THEN (k - 1) * step ELSE t_final]

interpolate_trajectory(tr, step) ==
    IF num_points(tr) < 2 THEN NoTrajectory
    ELSE LET ts == InterpTimes(tr.t_pts[num_points(tr)], step)
         IN  [t_pts |-> ts, poses |-> [k \in 1..Len(ts) |-> PoseAt(tr, ts[k])]]

(* --------------------------- configurations -------------------------- *)
(* The executor and robot set-ups explored: without a robot, with a speed  *)
(* that no trajectory can be built for, without a world, and with a world  *)
(* for each combination of validation and fog, the fogged ones with each   *)
(* kind of sensor and planner.                                             *)
Configuration(r, w, fog, val, sensor, planner, v, object) ==
    [robot |-> r, world |-> w, fog_hallways |-> fog, validate_during_execution |-> val,
     lidar_sensor |-> sensor, path_planner |-> planner, linear_velocity |-> v,
     manipulated_object |-> object]

Configurations ==
    {Configuration(FALSE, FALSE, FALSE, TRUE, None, "RRTPlanner", 1, NoObject),
     Configuration(TRUE, TRUE, FALSE, FALSE, None, "RRTPlanner", 0, NoObject),
     Configuration(TRUE, FALSE, TRUE, TRUE, "Lidar2D", "AStarPlanner", 1, NoObject),
     Configuration(TRUE, TRUE, FALSE, FALSE, None, "RRTPlanner", 1, <<0>>),
     Configuration(TRUE, TRUE, FALSE, TRUE, None, "PRMPlanner", 1, NoObject),
     Configuration(TRUE, TRUE, TRUE, FALSE, None, "AStarPlanner", 1, NoObject),
     Configuration(TRUE, TRUE, TRUE, FALSE, "Camera", "AStarPlanner", 1, NoObject),
     Configuration(TRUE, TRUE, TRUE, FALSE, "Missing", "AStarPlanner", 1, NoObject),
     Configuration(TRUE, TRUE, TRUE, TRUE, "Lidar2D", "AStarPlanner", 1, NoObject)}
    \cup {Configuration(TRUE, TRUE, TRUE, FALSE, "Lidar2D", planner, 1, NoObject) :
             planner \in Planners}

(* ------------------------------- Init --------------------------------- *)
(* The executor as constructed on a robot in one of the configurations,    *)
(* before any call.                                                        *)
Attached(configurations) ==
    /\ \E cfg \in configurations :
          /\ robot = cfg.robot
          /\ world = cfg.world
          /\ fog_hallways = cfg.fog_hallways
          /\ validate_during_execution = cfg.validate_during_execution
          /\ lidar_sensor = cfg.lidar_sensor
          /\ path_planner = cfg.path_planner
          /\ linear_velocity = cfg.linear_velocity
          /\ manipulated_object = cfg.manipulated_object
    /\ battery_level \in InitialBatteryLevels
    \* reset_state() at the end of __init__
    /\ current_traj_time = 0
    /\ following_path = FALSE
    /\ abort_execution = FALSE
    /\ cancel_execution = FALSE
    /\ hallway_states_updated = FALSE
    /\ traj = NoTrajectory
    /\ validation_timer = 0
    /\ lidar_sensor_timer = 0
    /\ pc = "idle"
    /\ path = <<>>
    /\ traj_interp = NoTrajectory
    /\ i = 1
    /\ prev_pose = 0
    /\ status = SUCCESS
    /\ battery_usage = 0
    /\ pose = 0
    /\ last_nav_result = None
    /\ planner_resets = 0
    /\ hallway_changes = 0
    /\ vpc = [c \in Calls |-> "unborn"]
    /\ v_cur_pose = [c \in Calls |-> 0]
    /\ v_idx = [c \in Calls |-> 1]
    /\ tpc = [c \in Calls |-> "unborn"]
    /\ analyse_pose = <<>>
    /\ pose_log = <<>>
    /\ collision_reported = FALSE
    /\ abort_at_exit = FALSE
    /\ cancel_requested = FALSE
    /\ knowledge_changed = FALSE
    /\ observed = None
    /\ signal_at = -1

(* A new robot knows of no closed hallway, in a world whose hallways are   *)
(* all open.                                                               *)
Constructed ==
    /\ Attached(Configurations)
    /\ recorded_closed_hallways = {}
    /\ is_open = [h \in HallwayNames |-> TRUE]

(* With both loops configured the calls explored start after calls that    *)
(* failed their precondition, which leave every field as constructed.      *)
Init ==
    /\ Constructed
    /\ calls = IF validate_during_execution /\ fog_hallways /\ world THEN MaxCalls - 1 ELSE 0
    /\ ret = IF calls = 0 THEN None ELSE PRECONDITION_FAILURE

(* --------------------------- reset_state ------------------------------ *)
reset_state ==
    /\ current_traj_time' = 0
    /\ following_path' = FALSE
    /\ abort_execution' = FALSE
    /\ cancel_execution' = FALSE
    /\ hallway_states_updated' = FALSE

(* ------------------- execute(): lines 89-125 -------------------------- *)
(* The precondition checks and the trajectory construction.  self.traj is  *)
(* assigned before it is tested, so a failed generation leaves None there. *)
PreconditionFailure_NoTrajectoryCheck(p) == ~robot \/ Len(p) < 2

PreconditionFailure(p) ==
    \/ ~robot
    \/ Len(p) < 2
    \/ get_constant_speed_trajectory(p, linear_velocity) = NoTrajectory
    \/ interpolate_trajectory(get_constant_speed_trajectory(p, linear_velocity), dt)
          = NoTrajectory

(* The observations of a run start afresh.                                *)
NewRun ==
    /\ pose_log' = <<>>
    /\ collision_reported' = FALSE
    /\ abort_at_exit' = FALSE
    /\ cancel_requested' = FALSE
    /\ knowledge_changed' = FALSE
    /\ observed' = None
    /\ signal_at' = -1
    /\ planner_resets' = 0

Execute(p, usage) ==
    /\ pc = "idle"
    /\ calls < MaxCalls
    /\ calls' = calls + 1
    /\ path' = p
    /\ traj' = IF robot /\ Len(p) >= 2
               THEN get_constant_speed_trajectory(p, linear_velocity)
               ELSE traj
    /\ IF PreconditionFailure(p)
       THEN /\ ret' = PRECONDITION_FAILURE
            /\ UNCHANGED <<pc, traj_interp, battery_usage>>
       ELSE /\ pc' = "reset"
            /\ traj_interp' = interpolate_trajectory(traj', dt)
            /\ battery_usage' = usage
            /\ ret' = None
    /\ UNCHANGED <<config, flags, handles, i, prev_pose, status, robot_state,
                   recorded_closed_hallways, world_state, validators, trackers, history>>

(* ------------------- execute(): line 127 ------------------------------ *)
ResetState ==
    /\ pc = "reset"
    /\ reset_state
    /\ pc' = "follow"
    /\ UNCHANGED <<config, traj, handles, path, traj_interp, i, prev_pose, status, battery_usage,
                   calls, ret, robot_state, recorded_closed_hallways, world_state,
                   validators, trackers, history>>

(* ------------------- execute(): line 128 ------------------------------ *)
FollowPath ==
    /\ pc = "follow"
    /\ following_path' = TRUE
    /\ pc' = "start_validator"
    /\ UNCHANGED <<config, current_traj_time, abort_execution, cancel_execution,
                   hallway_states_updated, traj, handles, path, traj_interp, i, prev_pose,
                   status, battery_usage, calls, ret, robot_state,
                   recorded_closed_hallways, world_state, validators, trackers, history>>

(* ------------------- execute(): lines 131-133 ------------------------- *)
StartsValidator_NoWorldCheck == validate_during_execution

StartsValidator == validate_during_execution /\ world

StartValidator ==
    /\ pc = "start_validator"
    /\ IF StartsValidator
       THEN /\ validation_timer' = calls
            /\ vpc' = [vpc EXCEPT ![calls] = "start"]
       ELSE UNCHANGED <<validation_timer, vpc>>
    /\ pc' = "start_tracker"
    /\ UNCHANGED <<config, flags, traj, lidar_sensor_timer, path, traj_interp, i, prev_pose,
                   status, battery_usage, calls, ret, robot_state,
                   recorded_closed_hallways, world_state, v_cur_pose, v_idx, trackers,
                   history>>

(* ------------------- execute(): lines 135-143 ------------------------- *)
StartsTracker == fog_hallways

StartTracker ==
    /\ pc = "start_tracker"
    /\ IF StartsTracker
       THEN /\ lidar_sensor_timer' = calls
            /\ tpc' = [tpc EXCEPT ![calls] = "start"]
       ELSE UNCHANGED <<lidar_sensor_timer, tpc>>
    /\ UNCHANGED analyse_pose
    /\ status' = SUCCESS
    /\ prev_pose' = traj_interp.poses[1]
    /\ i' = 1
    /\ pc' = "tick"
    /\ UNCHANGED <<config, flags, traj, validation_timer, path, traj_interp, battery_usage,
                   calls, ret, robot_state, recorded_closed_hallways, world_state,
                   validators, history>>

(* ------------------- execute(): lines 144-147 ------------------------- *)
(* The head of the for loop: either the next sample's time is published,   *)
(* or the samples are exhausted and the loop ends without a break.         *)
MoreSamples_OffByOne == i < num_points(traj_interp)

MoreSamples == i <= num_points(traj_interp)

Tick ==
    /\ pc = "tick"
    /\ IF MoreSamples
       THEN /\ current_traj_time' = traj_interp.t_pts[i]
            /\ pc' = "set_pose"
            /\ UNCHANGED <<abort_at_exit, observed>>
       ELSE /\ pc' = "planner_reset"
            /\ abort_at_exit' = abort_execution
            /\ observed' = "end"
            /\ UNCHANGED current_traj_time
    /\ UNCHANGED <<config, following_path, abort_execution, cancel_execution,
                   hallway_states_updated, traj, handles, path, traj_interp, i, prev_pose,
                   status, battery_usage, calls, ret, robot_state,
                   recorded_closed_hallways, world_state, validators, trackers,
                   pose_log, collision_reported, cancel_requested, knowledge_changed,
                   signal_at>>

(* ------------------- execute(): lines 148-150 ------------------------- *)
SetPose ==
    /\ pc = "set_pose"
    /\ pose' = traj_interp.poses[i]
    /\ manipulated_object' = IF manipulated_object # NoObject
                             THEN <<traj_interp.poses[i]>> ELSE manipulated_object
    /\ pose_log' = Append(pose_log, i)
    /\ pc' = "check_abort"
    /\ UNCHANGED <<config, flags, traj, handles, path, traj_interp, i, prev_pose, status,
                   battery_usage, calls, ret, battery_level, last_nav_result,
                   planner_resets, recorded_closed_hallways, world_state, validators,
                   trackers, collision_reported, abort_at_exit, cancel_requested,
                   knowledge_changed, observed, signal_at>>

(* ------------------- execute(): line 152 ------------------------------ *)
(* The abort test comes first in the tick, whatever the cancel flag holds. *)
ObservesAbort_UnlessCancel == abort_execution /\ ~cancel_execution

ObservesAbort == abort_execution

CheckAbort ==
    /\ pc = "check_abort"
    /\ pc' = IF ObservesAbort THEN "join_validator" ELSE "check_cancel"
    /\ observed' = IF ObservesAbort THEN "abort" ELSE observed
    /\ UNCHANGED <<config, flags, traj, handles, path, traj_interp, i, prev_pose, status,
                   battery_usage, calls, ret, robot_state, recorded_closed_hallways,
                   world_state, validators, trackers, pose_log, collision_reported,
                   abort_at_exit, cancel_requested, knowledge_changed, signal_at>>

(* ------------------- execute(): lines 153-156 ------------------------- *)
(* Thread.join() returns once the thread the handle names has finished.    *)
JoinsValidator == validate_during_execution /\ validation_timer # 0

JoinValidator ==
    /\ pc = "join_validator"
    /\ JoinsValidator => vpc[validation_timer] = "done"
    /\ pc' = "join_tracker"
    /\ UNCHANGED <<config, flags, traj, handles, path, traj_interp, i, prev_pose, status,
                   battery_usage, calls, ret, robot_state, recorded_closed_hallways,
                   world_state, validators, trackers, history>>

(* ------------------- execute(): lines 157-162 ------------------------- *)
JoinsTracker == fog_hallways /\ lidar_sensor_timer # 0

JoinTracker ==
    /\ pc = "join_tracker"
    /\ JoinsTracker => tpc[lidar_sensor_timer] = "done"
    /\ status' = EXECUTION_FAILURE
    /\ abort_at_exit' = abort_execution
    /\ pc' = "planner_reset"
    /\ UNCHANGED <<config, flags, traj, handles, path, traj_interp, i, prev_pose,
                   battery_usage, calls, ret, robot_state, recorded_closed_hallways,
                   world_state, validators, trackers, pose_log, collision_reported,
                   cancel_requested, knowledge_changed, observed, signal_at>>

(* ------------------- execute(): lines 163-182 ------------------------- *)
(* The cancel check and, when the run goes on, the battery drain of the    *)
(* tick and the step to the next sample.                                   *)
Drained(level, usage, cur, prev) == level - usage * get_linear_distance(cur, prev)

Depleted(level) == level <= 0

Clamped_Not(level) == level

Clamped(level) == IF Depleted(level) THEN 0 ELSE level

(* Where the controller goes on a cancel: the break leaves the loop.       *)
AfterCancel_NoBreak == "tick"

AfterCancel == "planner_reset"

(* The cancel test is made in every tick that saw no abort.                *)
ObservesCancel_OnOddTicks == cancel_execution /\ i % 2 = 1

ObservesCancel == cancel_execution

CheckCancel ==
    /\ pc = "check_cancel"
    /\ IF ObservesCancel
       THEN /\ cancel_execution' = FALSE
            /\ status' = CANCELED
            /\ abort_at_exit' = abort_execution
            /\ observed' = "cancel"
            /\ pc' = AfterCancel
            /\ UNCHANGED <<battery_level, i, prev_pose>>
       ELSE LET level == Drained(battery_level, battery_usage, traj_interp.poses[i],
                                 prev_pose)
            IN  /\ battery_level' = Clamped(level)
                /\ UNCHANGED cancel_execution
                /\ IF Depleted(level)
                   THEN /\ status' = EXECUTION_FAILURE
                        /\ abort_at_exit' = abort_execution
                        /\ observed' = "battery"
                        /\ pc' = "planner_reset"
                        /\ UNCHANGED <<i, prev_pose>>
                   ELSE /\ prev_pose' = traj_interp.poses[i]
                        /\ i' = i + 1
                        /\ pc' = "tick"
                        /\ UNCHANGED <<status, abort_at_exit, observed>>
    /\ UNCHANGED <<config, current_traj_time, following_path, abort_execution,
                   hallway_states_updated, traj, handles, path, traj_interp, battery_usage,
                   calls, ret, pose, last_nav_result, manipulated_object, planner_resets,
                   recorded_closed_hallways, world_state, validators, trackers, pose_log,
                   collision_reported, cancel_requested, knowledge_changed, signal_at>>

(* ------------------- execute(): lines 185-190 ------------------------- *)
IsGraphPlanner(planner) == planner \in {"PRMPlanner", "AStarPlanner"}

ResetsPlanner_AnyPlanner == hallway_states_updated

ResetsPlanner == hallway_states_updated /\ IsGraphPlanner(path_planner)

PlannerReset ==
    /\ pc = "planner_reset"
    /\ planner_resets' = IF ResetsPlanner THEN planner_resets + 1 ELSE planner_resets
    /\ pc' = "final_reset"
    /\ UNCHANGED <<config, flags, traj, handles, path, traj_interp, i, prev_pose, status,
                   battery_usage, calls, ret, pose, battery_level, last_nav_result,
                   manipulated_object, recorded_closed_hallways, world_state,
                   validators, trackers, history>>

(* ------------------- execute(): line 193 ------------------------------ *)
FinalReset_ForgetsHallways ==
    /\ pc = "final_reset"
    /\ reset_state
    /\ recorded_closed_hallways' = {}
    /\ pc' = "return"
    /\ UNCHANGED <<config, traj, handles, path, traj_interp, i, prev_pose, status, battery_usage,
                   calls, ret, robot_state, world_state, validators, trackers, history>>

FinalReset ==
    /\ pc = "final_reset"
    /\ reset_state
    /\ pc' = "return"
    /\ UNCHANGED <<config, traj, handles, path, traj_interp, i, prev_pose, status, battery_usage,
                   calls, ret, robot_state, recorded_closed_hallways, world_state,
                   validators, trackers, history>>

(* ------------------- execute(): lines 194-196 ------------------------- *)
(* The grace sleep of 0.1 s gives a loop that is in the middle of an       *)
(* iteration the time to finish it; a loop in its pacing sleep (0.5 s for  *)
(* the validator, 0.25 s for the tracker) may sleep through it.            *)
Parked(state) == state \in {"unborn", "done", "loop"}

GraceOver == \A c \in Calls : Parked(vpc[c]) /\ Parked(tpc[c])

(* The result is recorded and returned.                                    *)
Return ==
    /\ pc = "return"
    /\ GraceOver
    /\ last_nav_result' = status
    /\ ret' = status
    /\ pc' = "idle"
    \* the call's locals are gone
    /\ traj_interp' = NoTrajectory
    /\ i' = 1
    /\ prev_pose' = 0
    /\ status' = SUCCESS
    /\ battery_usage' = 0
    /\ NewRun
    /\ UNCHANGED <<config, flags, traj, handles, path, calls, pose, battery_level,
                   manipulated_object, recorded_closed_hallways, world_state, validators,
                   trackers>>

(* ------------------------- world collaborator ------------------------- *)
Cells(a, b) == IF a <= b THEN a..b ELSE b..a

(* Hallways that block the robot: its recorded knowledge under fog, the    *)
(* ground truth otherwise.                                                 *)
BlockingHallways(fog, recorded) ==
    IF fog THEN recorded ELSE {h \in HallwayNames : ~is_open[h]}

is_path_collision_free(poses, fog, recorded) ==
    \A k \in 1..(Len(poses) - 1) :
        \A h \in BlockingHallways(fog, recorded) :
            Cells(poses[k], poses[k + 1]) \cap internal_collision_polygon[h] = {}

(* ---------------- validate_remaining_path: lines 208-213 -------------- *)
(* The entry test on the first pass, the loop condition, and the read of   *)
(* the robot's pose that opens an iteration.                               *)
LoopCondition_IgnoresAbort == following_path

LoopCondition == following_path /\ ~abort_execution

ValidatorLoop(c) ==
    /\ vpc[c] \in {"start", "loop"}
    /\ IF (vpc[c] = "start" /\ (~robot \/ traj = NoTrajectory)) \/ ~LoopCondition
       THEN /\ vpc' = [vpc EXCEPT ![c] = "done"]
            /\ UNCHANGED v_cur_pose
       ELSE /\ vpc' = [vpc EXCEPT ![c] = "read_time"]
            /\ v_cur_pose' = [v_cur_pose EXCEPT ![c] = pose]
    /\ UNCHANGED <<config, flags, traj, handles, controller, robot_state,
                   recorded_closed_hallways, world_state, v_idx, trackers, history>>

(* ---------------- validate_remaining_path: lines 214-221 -------------- *)
(* enumerate() with a break: the first index whose time is >= cur_time,    *)
(* and the last index when the loop runs to its end.                       *)
RemainingIndex_Strict(tr, cur_time) ==
    LET later == {k \in 1..num_points(tr) : tr.t_pts[k] > cur_time}
    IN  IF later = {} THEN num_points(tr)
        ELSE CHOOSE k \in later : \A m \in later : k <= m

RemainingIndex(tr, cur_time) ==
    LET later == {k \in 1..num_points(tr) : tr.t_pts[k] >= cur_time}
    IN  IF later = {} THEN num_points(tr)
        ELSE CHOOSE k \in later : \A m \in later : k <= m

ValidatorReadTime(c) ==
    /\ vpc[c] = "read_time"
    /\ LET idx == RemainingIndex(traj, current_traj_time)
       IN  IF traj = NoTrajectory \/ idx = num_points(traj)
           THEN /\ vpc' = [vpc EXCEPT ![c] = "done"]
                /\ v_cur_pose' = [v_cur_pose EXCEPT ![c] = 0]
                /\ UNCHANGED v_idx
           ELSE /\ vpc' = [vpc EXCEPT ![c] = "collision_check"]
                /\ v_idx' = [v_idx EXCEPT ![c] = idx]
                /\ UNCHANGED v_cur_pose
    /\ UNCHANGED <<config, flags, traj, handles, controller, robot_state,
                   recorded_closed_hallways, world_state, trackers, history>>

(* ---------------- validate_remaining_path: lines 224-241 -------------- *)
RemainingPoses(cur_pose, tr, idx) ==
    <<cur_pose>> \o SubSeq(tr.poses, idx, Len(tr.poses))

InCollision(poses) ==
    /\ Len(poses) > 2
    /\ world
    /\ ~is_path_collision_free(poses, fog_hallways, recorded_closed_hallways)

MainLoopPcs == {"tick", "set_pose", "check_abort", "check_cancel"}

ValidatorCollisionCheck(c) ==
    /\ vpc[c] = "collision_check"
    /\ LET hit == InCollision(RemainingPoses(v_cur_pose[c], traj, v_idx[c]))
       IN  /\ abort_execution' = (hit \/ abort_execution)
           /\ collision_reported' =
                 (collision_reported \/ (hit /\ c = calls /\ pc \in MainLoopPcs))
           /\ signal_at' = IF hit /\ pc \in MainLoopPcs /\ signal_at = -1
                           THEN Len(pose_log) ELSE signal_at
    /\ vpc' = [vpc EXCEPT ![c] = "loop"]
    /\ v_cur_pose' = [v_cur_pose EXCEPT ![c] = 0]
    /\ v_idx' = [v_idx EXCEPT ![c] = 1]
    /\ UNCHANGED <<config, current_traj_time, following_path, cancel_execution,
                   hallway_states_updated, traj, handles, controller, robot_state,
                   recorded_closed_hallways, world_state, trackers, pose_log,
                   abort_at_exit, cancel_requested, knowledge_changed, observed>>

(* ---------------- detect_closed_hallway: lines 250-270 ---------------- *)
TrackerConfigured_AnySensor == robot /\ world /\ lidar_sensor # None

TrackerConfigured == robot /\ world /\ lidar_sensor = "Lidar2D"

TrackerLoop(c) ==
    /\ tpc[c] \in {"start", "loop"}
    /\ IF tpc[c] = "start" /\ ~TrackerConfigured
       THEN tpc' = [tpc EXCEPT ![c] = "done"]
       ELSE tpc' = [tpc EXCEPT ![c] = IF LoopCondition THEN "measure" ELSE "done"]
    /\ analyse_pose' = <<>>
    /\ UNCHANGED <<config, flags, traj, handles, controller, robot_state,
                   recorded_closed_hallways, world_state, validators, history>>

(* ---------------- detect_closed_hallway: lines 272-282 ---------------- *)
(* The points of the beams that returned less than the maximum range.      *)
RECURSIVE MeasuredPoints(_, _, _)
MeasuredPoints(cur_pose, lengths, k) ==
    IF k > Len(angles) THEN <<>>
    ELSE IF lengths[k] < max_range_m
         THEN <<cur_pose + lengths[k] * angles[k]>> \o MeasuredPoints(cur_pose, lengths, k + 1)
         ELSE MeasuredPoints(cur_pose, lengths, k + 1)

(* The scan of the world's hallways for one point, from hallway k on; it   *)
(* breaks at the first hallway whose recorded state it changes.            *)
RECURSIVE ScanHallways_NoRemove(_, _, _)
ScanHallways_NoRemove(point, recorded, k) ==
    IF k > Len(hallways) THEN [recorded |-> recorded, updated |-> FALSE]
    ELSE LET hallway == hallways[k]
         IN  IF point \in internal_collision_polygon[hallway]
                /\ ~is_open[hallway] /\ hallway \notin recorded
             THEN [recorded |-> recorded \cup {hallway}, updated |-> TRUE]
             ELSE ScanHallways_NoRemove(point, recorded, k + 1)

RECURSIVE ScanHallways_NoBreak(_, _, _)
ScanHallways_NoBreak(point, recorded, k) ==
    IF k > Len(hallways) THEN [recorded |-> recorded, updated |-> FALSE]
    ELSE LET hallway == hallways[k]
             rest == ScanHallways_NoBreak(point, recorded, k + 1)
         IN  IF point \in internal_collision_polygon[hallway]
             THEN IF ~is_open[hallway]
                  THEN IF hallway \notin recorded
                       THEN [recorded |-> rest.recorded \cup {hallway}, updated |-> TRUE]
                       ELSE rest
                  ELSE IF hallway \in recorded
                       THEN [recorded |-> rest.recorded \ {hallway}, updated |-> TRUE]
                       ELSE rest
             ELSE rest

RECURSIVE ScanHallways(_, _, _)
ScanHallways(point, recorded, k) ==
    IF k > Len(hallways) THEN [recorded |-> recorded, updated |-> FALSE]
    ELSE LET hallway == hallways[k]
         IN  IF point \in internal_collision_polygon[hallway]
             THEN IF ~is_open[hallway]
                  THEN IF hallway \notin recorded
                       THEN [recorded |-> recorded \cup {hallway}, updated |-> TRUE]
                       ELSE ScanHallways(point, recorded, k + 1)
                  ELSE IF hallway \in recorded
                       THEN [recorded |-> recorded \ {hallway}, updated |-> TRUE]
                       ELSE ScanHallways(point, recorded, k + 1)
             ELSE ScanHallways(point, recorded, k + 1)

(* The outer loop over the measured points.                                *)
RECURSIVE ScanPoints(_, _)
ScanPoints(points, recorded) ==
    IF points = <<>> THEN [recorded |-> recorded, updated |-> FALSE]
    ELSE LET first == ScanHallways(Head(points), recorded, 1)
             rest == ScanPoints(Tail(points), first.recorded)
         IN  [recorded |-> rest.recorded, updated |-> first.updated \/ rest.updated]

(* ---------------- detect_closed_hallway: lines 272-310 ---------------- *)
(* One iteration: the measurement, its points, and the hallway updates.    *)
TrackerMeasure(c) ==
    /\ tpc[c] = "measure"
    /\ \E lengths \in [1..Len(angles) -> Ranges] :
          LET scan == ScanPoints(MeasuredPoints(pose, lengths, 1), recorded_closed_hallways)
          IN  /\ analyse_pose' = MeasuredPoints(pose, lengths, 1)
              /\ recorded_closed_hallways' = scan.recorded
              /\ hallway_states_updated' = (scan.updated \/ hallway_states_updated)
              /\ knowledge_changed' = (knowledge_changed \/ (scan.updated /\ pc # "idle"))
    /\ tpc' = [tpc EXCEPT ![c] = "loop"]
    /\ UNCHANGED <<config, current_traj_time, following_path, abort_execution,
                   cancel_execution, traj, handles, controller, robot_state, world_state,
                   validators, pose_log, collision_reported, abort_at_exit,
                   cancel_requested, observed, signal_at>>

(* --------------------------- environment ------------------------------ *)
(* An external caller sets the cancel flag.                                *)
Cancel ==
    /\ pc # "idle"
    /\ ~cancel_execution
    /\ cancel_execution' = TRUE
    /\ cancel_requested' = (cancel_requested \/ pc \in MainLoopPcs)
    /\ signal_at' = IF pc \in MainLoopPcs /\ signal_at = -1 THEN Len(pose_log) ELSE signal_at
    /\ UNCHANGED <<config, current_traj_time, following_path, abort_execution,
                   hallway_states_updated, traj, handles, controller, robot_state,
                   recorded_closed_hallways, world_state, validators, trackers, pose_log,
                   collision_reported, abort_at_exit, knowledge_changed, observed>>

(* The world opens or closes a hallway.                                    *)
SetHallway(h) ==
    /\ world
    /\ hallway_changes < MaxHallwayChanges
    /\ hallway_changes' = hallway_changes + 1
    /\ is_open' = [is_open EXCEPT ![h] = ~is_open[h]]
    /\ UNCHANGED <<config, flags, traj, handles, controller, robot_state,
                   recorded_closed_hallways, validators, trackers, history>>

(* ----------------------------- behaviours ----------------------------- *)
Next ==
    \/ \E p \in Paths, usage \in BatteryUsages : Execute(p, usage)
    \/ ResetState
    \/ FollowPath
    \/ StartValidator
    \/ StartTracker
    \/ Tick
    \/ SetPose
    \/ CheckAbort
    \/ JoinValidator
    \/ JoinTracker
    \/ CheckCancel
    \/ PlannerReset
    \/ FinalReset
    \/ Return
    \/ \E c \in Calls : ValidatorLoop(c)
    \/ \E c \in Calls : ValidatorReadTime(c)
    \/ \E c \in Calls : ValidatorCollisionCheck(c)
    \/ \E c \in Calls : TrackerLoop(c)
    \/ \E c \in Calls : TrackerMeasure(c)
    \/ Cancel
    \/ \E h \in HallwayNames : SetHallway(h)

Spec == Init /\ [][Next]_vars

(* The last call of an executor, on the paths of Paths and on the straight *)
(* path of one metre.                                                      *)
LastCallInit ==
    /\ Constructed
    /\ calls = MaxCalls - 1
    /\ ret = IF calls = 0 THEN None ELSE PRECONDITION_FAILURE

LastCallNext ==
    \/ \E p \in Paths \cup {LinePath}, usage \in BatteryUsages : Execute(p, usage)
    \/ ResetState
    \/ FollowPath
    \/ StartValidator
    \/ StartTracker
    \/ Tick
    \/ SetPose
    \/ CheckAbort
    \/ JoinValidator
    \/ JoinTracker
    \/ CheckCancel
    \/ PlannerReset
    \/ FinalReset
    \/ Return
    \/ \E c \in Calls : ValidatorLoop(c)
    \/ \E c \in Calls : ValidatorReadTime(c)
    \/ \E c \in Calls : ValidatorCollisionCheck(c)
    \/ \E c \in Calls : TrackerLoop(c)
    \/ \E c \in Calls : TrackerMeasure(c)
    \/ Cancel
    \/ \E h \in HallwayNames : SetHallway(h)

LastCallSpec == LastCallInit /\ [][LastCallNext]_vars

(* The last call of an executor with both loops configured, on a robot     *)
(* that has navigated before: the hallways' ground truth and the robot's   *)
(* recorded knowledge are whatever earlier runs and the world left.        *)
BothLoops == Configuration(TRUE, TRUE, TRUE, TRUE, "Lidar2D", "AStarPlanner", 1, NoObject)

SeasonedInit ==
    /\ Attached({BothLoops})
    /\ recorded_closed_hallways \in SUBSET HallwayNames
    /\ is_open \in [HallwayNames -> BOOLEAN]
    /\ calls = MaxCalls - 1
    /\ ret = IF calls = 0 THEN None ELSE PRECONDITION_FAILURE

SeasonedSpec == SeasonedInit /\ [][Next]_vars

(* The last call of a new executor with both loops configured, under fair  *)
(* scheduling: the controller thread and every loop's thread, each having  *)
(* a step to take, takes it in the end.  The caller and the world owe      *)
(* nothing.                                                                *)
ControllerStep ==
    \/ ResetState \/ FollowPath \/ StartValidator \/ StartTracker \/ Tick \/ SetPose
    \/ CheckAbort \/ JoinValidator \/ JoinTracker \/ CheckCancel \/ PlannerReset
    \/ FinalReset \/ Return

ValidatorStep(c) == ValidatorLoop(c) \/ ValidatorReadTime(c) \/ ValidatorCollisionCheck(c)

TrackerStep(c) == TrackerLoop(c) \/ TrackerMeasure(c)

FairScheduling ==
    /\ WF_vars(ControllerStep)
    /\ \A c \in Calls : WF_vars(ValidatorStep(c)) /\ WF_vars(TrackerStep(c))

FairInit ==
    /\ Attached({BothLoops})
    /\ recorded_closed_hallways = {}
    /\ is_open = [h \in HallwayNames |-> TRUE]
    /\ calls = MaxCalls - 1
    /\ ret = IF calls = 0 THEN None ELSE PRECONDITION_FAILURE

FairSpec == FairInit /\ [][Next]_vars /\ FairScheduling

(* ------------------------------ claims -------------------------------- *)
ThreadOver(state) == state \in {"unborn", "done"}

NoLoopRunning == \A c \in Calls : ThreadOver(vpc[c]) /\ ThreadOver(tpc[c])

AfterLoopPcs == {"planner_reset", "final_reset", "return"}

InRunPcs == MainLoopPcs \cup {"join_validator", "join_tracker"} \cup AfterLoopPcs

PushedUpTo(n) == pose_log = [k \in 1..n |-> k]

(* The states from which execute() returns.                                *)
Returning == pc = "return" /\ GraceOver

(* C1: once execute() has returned, no validator loop and no tracker loop  *)
(* is running, so none is alive between two calls.                         *)
C1_NoLoopAfterReturn == (pc = "idle") => NoLoopRunning

(* C2: if the validator this call started reports a collision while the    *)
(* main loop runs, the call returns EXECUTION_FAILURE and abort_execution  *)
(* was true when the main loop exited.                                     *)
C2_CollisionAborts ==
    (Returning /\ collision_reported) => (status = EXECUTION_FAILURE /\ abort_at_exit)

(* C3, as stated: if cancel_execution is set while the main loop runs, the *)
(* call returns CANCELED.                                                  *)
C3_CancelMeansCanceled == (Returning /\ cancel_requested) => status = CANCELED

(* C3, amended: once the controller has observed cancel_execution at a     *)
(* tick's cancel check, the loop is over, the status is CANCELED and the   *)
(* samples pushed are exactly those up to that tick, the robot resting on  *)
(* that tick's pose.                                                       *)
C3_ObservedCancelEndsRun ==
    (observed = "cancel") =>
        /\ pc \in AfterLoopPcs
        /\ status = CANCELED
        /\ PushedUpTo(i)
        /\ pose = traj_interp.poses[i]

C3_Witness == pc = "return" /\ observed = "cancel" /\ i < num_points(traj_interp)

(* C4: the battery level never rises and is never negative; the loop goes  *)
(* on to a next tick only with a positive level; when a tick's drain takes *)
(* the level to 0 or below it is set to 0, the status is EXECUTION_FAILURE *)
(* and no sample after that tick's is pushed.                              *)
C4_Battery ==
    /\ [](/\ battery_level >= 0
          /\ (pc = "tick" /\ i > 1) => battery_level > 0
          /\ (observed = "battery") =>
                /\ battery_level = 0
                /\ status = EXECUTION_FAILURE
                /\ pc \in AfterLoopPcs
                /\ PushedUpTo(i))
    /\ [][battery_level' <= battery_level]_vars

C4_Witness == pc = "return" /\ observed = "battery" /\ i < num_points(traj_interp)

(* C5: a call without a robot, with a path of fewer than 2 poses, or for   *)
(* which no trajectory can be built returns PRECONDITION_FAILURE at once   *)
(* and changes none of the execution-state flags, the robot's pose, its    *)
(* battery level, the thread handles or any loop.                          *)
C5_PreconditionFailure ==
    [][(calls' = calls + 1 /\
        (\/ ~robot
         \/ Len(path') < 2
         \/ get_constant_speed_trajectory(path', linear_velocity) = NoTrajectory
         \/ interpolate_trajectory(get_constant_speed_trajectory(path', linear_velocity), dt)
               = NoTrajectory))
       => /\ ret' = PRECONDITION_FAILURE
          /\ pc' = "idle"
          /\ UNCHANGED <<flags, pose, battery_level, handles, vpc, tpc>>]_vars

C5_Witness ==
    /\ pc = "idle" /\ ret = PRECONDITION_FAILURE /\ path = ShortPath
    /\ last_nav_result = SUCCESS /\ pose = 2

(* C6: a run that no abort, cancel or empty battery ends pushes every      *)
(* sample once, in order, returns SUCCESS and leaves the robot on the last *)
(* pose; on the straight one-metre path at 1 m/s and dt 0.1 s these are    *)
(* 11 samples, at t = 0.0 .. 1.0.                                          *)
C6_FullRun ==
    (observed = "end") =>
        /\ status = SUCCESS
        /\ PushedUpTo(num_points(traj_interp))
        /\ pose = path[Len(path)]
        /\ (path = LinePath /\ linear_velocity = 1) =>
              /\ Len(pose_log) = 11
              /\ traj_interp.t_pts = [k \in 1..11 |-> k - 1]

C6_Witness == pc = "return" /\ observed = "end" /\ path = LinePath /\ Len(pose_log) = 11

(* C7: if the tracker changed recorded_closed_hallways during the call and *)
(* the planner is an A* or PRM planner, the planner has been reset by the  *)
(* time the call returns.                                                  *)
C7_ChangeResetsPlanner ==
    (Returning /\ knowledge_changed /\ IsGraphPlanner(path_planner))
        => planner_resets > 0

(* C8: the planner is reset at most once in a call, at the step after the  *)
(* main loop, and only with hallway_states_updated true and an A* or PRM   *)
(* planner.                                                                *)
C8_PlannerResetOnce ==
    /\ [](/\ planner_resets <= 1
          /\ (planner_resets > 0) => pc \in {"final_reset", "return"})
    /\ [][(planner_resets' > planner_resets)
            => /\ pc = "planner_reset"
               /\ hallway_states_updated
               /\ path_planner \in {"AStarPlanner", "PRMPlanner"}]_vars

C8_Witness == pc = "return" /\ planner_resets = 1

(* C9: when the call returns, the flags the controller and its loops write *)
(* are at their baseline (cancel_execution, which an outside caller may    *)
(* set at any moment, is left aside).                                      *)
C9_BaselineAtReturn ==
    Returning =>
        /\ ~following_path
        /\ ~abort_execution
        /\ ~hallway_states_updated
        /\ current_traj_time = 0

(* C10: a loop is started only by the controller's start steps, with       *)
(* following_path true and current_traj_time reset; and in a run the       *)
(* validator is started iff validate_during_execution and the robot has a  *)
(* world, the tracker iff fog_hallways.                                    *)
C10_LoopsStart ==
    /\ [](pc \in InRunPcs =>
             /\ (vpc[calls] # "unborn") <=> (validate_during_execution /\ world)
             /\ (tpc[calls] # "unborn") <=> fog_hallways)
    /\ [][(\E c \in Calls : \/ (vpc[c] = "unborn" /\ vpc'[c] # "unborn")
                            \/ (tpc[c] = "unborn" /\ tpc'[c] # "unborn"))
            => /\ pc \in {"start_validator", "start_tracker"}
               /\ following_path
               /\ current_traj_time = 0]_vars

C10_Witness == pc = "start_tracker" /\ vpc[calls] = "start" /\ ~fog_hallways

(* A tracker completes an iteration: measurement, points, hallway scan.    *)
TrackerIterates == \E c \in Calls : tpc[c] = "measure" /\ tpc'[c] = "loop"

(* The positions, in the world's order, of the hallways whose polygon      *)
(* holds the point, and of those among them whose record disagrees with    *)
(* the ground truth (closed and not recorded, or open and recorded).       *)
Holding(point) ==
    {k \in 1..Len(hallways) : point \in internal_collision_polygon[hallways[k]]}

Disagreeing(point) ==
    {k \in Holding(point) : is_open[hallways[k]] <=> (hallways[k] \in recorded_closed_hallways)}

First(ks) == CHOOSE k \in ks : \A m \in ks : k <= m

(* C11: in a tracker iteration whose beam point lies inside hallway        *)
(* polygons, the hallway the scan acts on (the first in order whose record *)
(* disagrees with the ground truth) is added when closed and not recorded, *)
(* removed when open and recorded, and hallway_states_updated becomes      *)
(* true; a hallway that is closed and recorded, or open and not recorded,  *)
(* keeps its record, and when every hallway holding the point is such,     *)
(* neither the set nor the flag changes.                                   *)
C11_TrackerCases ==
    [][(TrackerIterates /\ analyse_pose' # <<>>) =>
          LET point == analyse_pose'[1]
              agreeing == Holding(point) \ Disagreeing(point)
          IN  /\ \A k \in agreeing :
                    (hallways[k] \in recorded_closed_hallways')
                        <=> (hallways[k] \in recorded_closed_hallways)
              /\ IF Disagreeing(point) = {}
                 THEN UNCHANGED <<recorded_closed_hallways, hallway_states_updated>>
                 ELSE LET hallway == hallways[First(Disagreeing(point))]
                      IN  /\ ~is_open[hallway] => hallway \in recorded_closed_hallways'
                          /\ is_open[hallway] => hallway \notin recorded_closed_hallways'
                          /\ hallway_states_updated']_vars

(* A hallway was recorded as closed and, once open again, removed.         *)
C11_Witness ==
    /\ knowledge_changed /\ hallway_states_updated /\ analyse_pose = <<2>>
    /\ hallway_changes = 1 /\ is_open["h1"] /\ "h1" \notin recorded_closed_hallways
    /\ pc \in MainLoopPcs /\ Len(pose_log) = 3

(* C18: for the measured point of a tracker iteration at most one hallway  *)
(* is added to or removed from recorded_closed_hallways, and it is the     *)
(* first one in the world's order whose record the point shows to be       *)
(* wrong: hallways later in the order that also hold the point keep their  *)
(* record, right or wrong.                                                 *)
C18_FirstMatchWins ==
    [][TrackerIterates =>
          LET changed == (recorded_closed_hallways' \ recorded_closed_hallways)
                            \cup (recorded_closed_hallways \ recorded_closed_hallways')
          IN  /\ Cardinality(changed) <= Len(analyse_pose')
              /\ \A hallway \in changed :
                    /\ Disagreeing(analyse_pose'[1]) # {}
                    /\ hallway = hallways[First(Disagreeing(analyse_pose'[1]))]]_vars

(* The point lay in both closed hallways, neither recorded: only the first *)
(* of them was added.                                                      *)
C18_Witness ==
    /\ analyse_pose = <<2>> /\ knowledge_changed /\ hallway_changes = 0
    /\ ~is_open["h1"] /\ ~is_open["h2"]
    /\ recorded_closed_hallways = {"h1"}

(* Hallway tracking is on but no lidar sensor name is configured, or the   *)
(* named sensor is missing or not a 2D lidar.                              *)
Misconfigured == fog_hallways /\ lidar_sensor \in {None, "Missing", "Camera"}

(* C12: with a misconfigured sensor the tracker never measures, and its    *)
(* steps change nothing but its own position: recorded_closed_hallways,    *)
(* hallway_states_updated, abort_execution and everything the controller,  *)
(* the validator and the robot hold are as they would be without it; the   *)
(* knowledge stays empty and the flag false.                               *)
C12_MisconfiguredTracker ==
    /\ [](Misconfigured =>
             /\ \A c \in Calls : tpc[c] \in {"unborn", "start", "done"}
             /\ recorded_closed_hallways = {}
             /\ ~hallway_states_updated)
    /\ [][(Misconfigured /\ tpc' # tpc /\ pc # "start_tracker") =>
             /\ \E c \in Calls : tpc[c] = "start" /\ tpc' = [tpc EXCEPT ![c] = "done"]
             /\ UNCHANGED <<config, flags, traj, handles, controller, robot_state,
                            recorded_closed_hallways, world_state, validators,
                            analyse_pose, history>>]_vars

(* The run went to its end and is about to return SUCCESS, its tracker     *)
(* having exited at once.                                                  *)
C12_Witness ==
    /\ Misconfigured /\ lidar_sensor = "Missing"
    /\ pc = "return" /\ observed = "end" /\ status = SUCCESS
    /\ tpc[calls] = "done" /\ pose = 2

C14_OneMoreSample == (signal_at # -1) => Len(pose_log) <= signal_at + 1

(* The validator set abort_execution after the first sample's checks; the  *)
(* second sample was pushed, the abort observed, and the loop left.        *)
C14_Witness ==
    /\ pc = "return" /\ observed = "abort" /\ collision_reported
    /\ signal_at = 1 /\ Len(pose_log) = 2

Results == {SUCCESS, CANCELED, EXECUTION_FAILURE, PRECONDITION_FAILURE}

(* C15: under fair scheduling every call returns, with one result that     *)
(* only a later call replaces; a controller waiting in a join leaves it,   *)
(* and abort_execution is true for as long as it waits.                    *)
C15_Terminates ==
    /\ (pc # "idle") ~> (pc = "idle" /\ ret \in Results)
    /\ (pc \in {"join_validator", "join_tracker"}) ~> (pc = "planner_reset")
    /\ [](pc \in {"join_validator", "join_tracker"} => abort_execution)
    /\ [][(ret # None /\ ret' # ret) => (pc = "idle" /\ calls' = calls + 1)]_vars

(* The controller waits in the join while the validator that raised the    *)
(* abort is in its pacing sleep and the tracker in the middle of an        *)
(* iteration.                                                              *)
C15_Witness ==
    /\ pc = "join_validator" /\ vpc[calls] = "loop" /\ tpc[calls] = "measure"

(* C16: a tick's abort test with abort_execution true ends the loop as     *)
(* aborted whatever cancel_execution holds, and the run then returns       *)
(* EXECUTION_FAILURE, not CANCELED; from the step that observes an abort   *)
(* or a cancel to the return, the battery level is not touched.            *)
C16_Priority ==
    /\ [](observed = "abort" =>
             /\ pc \in {"join_validator", "join_tracker"} \cup AfterLoopPcs
             /\ pc \in AfterLoopPcs => status = EXECUTION_FAILURE)
    /\ [][(pc = "check_abort" /\ pc' # pc /\ abort_execution)
            => (pc' = "join_validator" /\ observed' = "abort")]_vars
    /\ [][(observed' \in {"abort", "cancel"}) => battery_level' = battery_level]_vars

(* Abort and cancel were both set at the third tick, whose drain would     *)
(* have emptied the battery: the run is aborted, the battery untouched.    *)
C16_Witness ==
    /\ pc = "planner_reset" /\ observed = "abort" /\ cancel_execution
    /\ status = EXECUTION_FAILURE /\ i = 3 /\ battery_usage = 2 /\ battery_level = 1

(* The waypoints of self.traj whose timestamp is at or after a time.       *)
NotBefore(time) == {k \in 1..Len(traj.t_pts) : traj.t_pts[k] >= time}

(* A validator reads current_traj_time and settles its index; a validator  *)
(* finishes its collision check.                                           *)
ReadsTime(c) == vpc[c] = "read_time" /\ vpc'[c] # "read_time"

ChecksCollision(c) == vpc[c] = "collision_check" /\ vpc'[c] # "collision_check"

(* The index is the earliest waypoint at or after the time read; on the    *)
(* final waypoint the validator exits with no check; otherwise it checks   *)
(* the pose it read followed by the trajectory's poses from the index on,  *)
(* and sets abort_execution iff that path is in collision.                 *)
IndexAndPath ==
    /\ [][\A c \in Calls : ReadsTime(c) =>
             /\ NotBefore(current_traj_time) # {}
             /\ IF First(NotBefore(current_traj_time)) = Len(traj.t_pts)
                THEN vpc'[c] = "done" /\ UNCHANGED abort_execution
                ELSE /\ vpc'[c] = "collision_check"
                     /\ v_idx'[c] = First(NotBefore(current_traj_time))
                     /\ v_cur_pose'[c] = v_cur_pose[c]]_vars
    /\ [][\A c \in Calls : ChecksCollision(c) =>
             abort_execution' =
                (abort_execution \/
                 ~is_path_collision_free(
                     <<v_cur_pose[c]>> \o SubSeq(traj.poses, v_idx[c], Len(traj.poses)),
                     fog_hallways, recorded_closed_hallways))]_vars

(* C17, as stated: with the index and the path as above, abort_execution   *)
(* is never set once current_traj_time is past the second-to-last          *)
(* waypoint's timestamp.                                                   *)
C17_NoAbortNearTheEnd ==
    /\ IndexAndPath
    /\ [][(abort_execution' /\ ~abort_execution)
            => current_traj_time <= traj.t_pts[Len(traj.t_pts) - 1]]_vars

(* C17, amended: with the index and the path as above, abort_execution is  *)
(* set only by an iteration whose index, settled from the time it read, is *)
(* before the final waypoint (whatever current_traj_time has become since).*)
C17_ValidatorIndex ==
    /\ IndexAndPath
    /\ [][(abort_execution' /\ ~abort_execution)
            => \E c \in Calls : ChecksCollision(c) /\ v_idx[c] < Len(traj.t_pts)]_vars

(* The validator read a time at the final waypoint and exited, the run     *)
(* still going on.                                                         *)
C17_Witness ==
    /\ pc \in MainLoopPcs /\ following_path /\ ~abort_execution
    /\ current_traj_time = 2 /\ vpc[calls] = "done"

(* C19: a validator that has read the robot's pose and is about to read    *)
(* current_traj_time finds there a time that is not ahead of the sample    *)
(* the robot's pose was last set to, the pose of a tick being pushed       *)
(* before its time is published.                                           *)
C19_TimeNotAheadOfPose ==
    \A c \in Calls :
        (vpc[c] = "read_time" /\ pc \in MainLoopPcs /\ pose_log # <<>>)
            => current_traj_time <= traj_interp.t_pts[pose_log[Len(pose_log)]]

(* C20: once a later call has set following_path back to true, no          *)
(* validator loop that an earlier call started is polling, and none sets   *)
(* abort_execution: an abort is raised by the validator of the call in     *)
(* progress only.                                                          *)
C20_NoStaleValidator ==
    /\ [](\A c \in Calls :
             (c < calls /\ following_path) => vpc[c] \notin {"read_time", "collision_check"})
    /\ [][(abort_execution' /\ ~abort_execution /\ pc # "idle")
            => ChecksCollision(calls)]_vars

====
